---- MODULE Spec2Model ----
(***************************************************************************)
(* State-machine model of Ewoms::EclProblem (tests/problems/eclproblem.hh):*)
(* the constructor (initFluidSystem_, readMaterialParameters_ with         *)
(* computeFaceIntrinsicPermeabilities_, readInitialCondition_), the       *)
(* read-only queries the discretization makes afterwards, and the episode  *)
(* handling (episodeEnd, shouldWriteOutput).                               *)
(*                                                                         *)
(* Scalars (double) of the rock arrays are modelled by small non-negative  *)
(* integers; a face permeability component is an exact fraction            *)
(* <<numerator, denominator>> in lowest terms.  The saturations, whose     *)
(* differences the class rounds, are IEEE doubles held exactly (see        *)
(* "Double arithmetic").  Vectors are sequences: C++ element i is TLA+     *)
(* element i + 1.                                                          *)
(***************************************************************************)
EXTENDS Integers, Sequences, FiniteSets, TLC

(***************************************************************************)
(* Bounds of the model                                                     *)
(***************************************************************************)
\* largest number of cells of a logical (Cartesian) grid of one row
MaxCart == 3
\* largest raw value of a deck array
MaxVal == 2
\* largest number of SWOF / SGOF tables
MaxTables == 2
\* largest number of points of the schedule's time map
MaxTimePoints == 4

(***************************************************************************)
(* Program constants                                                       *)
(***************************************************************************)
\* Dune::FieldMatrix<Scalar, dimWorld, dimWorld>
dimWorld == 3
\* materialParamTableIdx_ is a std::vector<unsigned short>
UShortModulus == 65536
\* Scalar is double: 53 significant bits
MantissaBits == 53

Dim == 0 .. (dimWorld - 1)
Vals == 0 .. MaxVal

Min(a, b) == IF a <= b THEN a ELSE b
Max(a, b) == IF a <= b THEN b ELSE a

RECURSIVE GCD(_, _)
GCD(a, b) == IF b = 0 THEN a ELSE GCD(b, a % b)

\* the fraction n/d (n >= 0, d > 0) in lowest terms
Frac(n, d) == LET g == GCD(n, d) IN <<n \div g, d \div g>>

(***************************************************************************)
(* Double arithmetic.  A double d with |d| < 8 that is a multiple of        *)
(* 2^-UnitExponent is held as sign and magnitude, the magnitude being the  *)
(* integer |d| * 2^UnitExponent in two limbs: hi * Limb + lo.  Sums and    *)
(* differences of such values are computed exactly and then rounded to     *)
(* MantissaBits significant bits, to nearest, ties to even.                *)
(***************************************************************************)
UnitExponent == 57
LimbBits == 30
Limb == 2 ^ LimbBits

Dbl(neg, hi, lo) == [neg |-> neg, hi |-> hi, lo |-> lo]
DblZero == Dbl(FALSE, 0, 0)
DblOne == Dbl(FALSE, 2 ^ (UnitExponent - LimbBits), 0)

IsZero(x) == x.hi = 0 /\ x.lo = 0
MagLess(a, b) == a.hi < b.hi \/ (a.hi = b.hi /\ a.lo < b.lo)

\* -x (the sign of zero is not kept)
Negate(x) == IF IsZero(x) THEN x ELSE [x EXCEPT !.neg = ~@]

\* |a| + |b| with the sign neg
MagAdd(neg, a, b) ==
    LET lo == a.lo + b.lo
    IN  Dbl(neg, a.hi + b.hi + (lo \div Limb), lo % Limb)

\* |a| - |b| with the sign neg, for |a| > |b|
MagSub(neg, a, b) ==
    LET lo == a.lo - b.lo
    IN  IF lo >= 0 THEN Dbl(neg, a.hi - b.hi, lo)
        ELSE Dbl(neg, a.hi - b.hi - 1, lo + Limb)

\* a + b without rounding
ExactAdd(a, b) ==
    IF a.neg = b.neg THEN MagAdd(a.neg, a, b)
    ELSE IF MagLess(a, b) THEN MagSub(b.neg, b, a)
    ELSE IF MagLess(b, a) THEN MagSub(a.neg, a, b)
    ELSE DblZero

\* number of bits of n >= 0
RECURSIVE BitLen(_)
BitLen(n) == IF n = 0 THEN 0 ELSE 1 + BitLen(n \div 2)

\* the double nearest to x, ties to even
RoundToDouble(x) ==
    LET bits == IF x.hi > 0 THEN LimbBits + BitLen(x.hi) ELSE BitLen(x.lo)
        drop == bits - MantissaBits
    IN  IF drop <= 0 THEN x
        ELSE LET unit == 2 ^ drop
                 rem == x.lo % unit
                 odd == (x.lo \div unit) % 2 = 1
                 up == 2 * rem > unit \/ (2 * rem = unit /\ odd)
                 lo == x.lo - rem + (IF up THEN unit ELSE 0)
             IN  Dbl(x.neg, x.hi + (lo \div Limb), lo % Limb)

\* a + b and a - b on doubles
DoubleAdd(a, b) == RoundToDouble(ExactAdd(a, b))
DoubleSub(a, b) == RoundToDouble(ExactAdd(a, Negate(b)))

\* the doubles nearest to some decimal values of a deck
Dbl006 == Dbl(FALSE, 8053063, 730144440)      \* 0.06 = 0x1.eb851eb851eb8p-5
Dbl02 == Dbl(FALSE, 26843545, 644245096)      \* 0.2  = 0x1.999999999999ap-3
Dbl03 == Dbl(FALSE, 40265318, 429496728)      \* 0.3  = 0x1.3333333333333p-2
Dbl05 == Dbl(FALSE, 67108864, 0)              \* 0.5
Dbl07 == Dbl(FALSE, 93952409, 644245088)      \* 0.7  = 0x1.6666666666666p-1
Dbl075 == Dbl(FALSE, 100663296, 0)            \* 0.75
Dbl082 == Dbl(FALSE, 110058536, 1030792144)   \* 0.82 = 0x1.a3d70a3d70a3dp-1

\* saturation values of the decks, and the arrays made of them
SatSeq == <<Dbl03, Dbl02, Dbl006, Dbl082, Dbl075, Dbl05, DblOne, DblZero>>
SatRamp(n, s) == [i \in 1 .. n |-> SatSeq[((i - 1 + s) % Len(SatSeq)) + 1]]
SatPats(n) == { SatRamp(n, s) : s \in 0 .. (Len(SatSeq) - 1) }

(***************************************************************************)
(* The grid: a logical Cartesian grid of cartDims[1] x cartDims[2] x       *)
(* cartDims[3] cells, of which the cells listed in globalCell are active.  *)
(*   globalCell[c + 1] is the origin (Cartesian) index of active cell c;   *)
(*   axes are the axes whose intersections are enumerated: across the      *)
(*   other axes a cell has boundary intersections only, which the loops    *)
(*   skip;                                                                 *)
(*   nnc says whether two active cells separated by inactive cells are     *)
(*   connected by a non-structured intersection.                           *)
(***************************************************************************)
Axes == 0 .. 2

\* the strictly increasing sequences over 0 .. n-1 (the compressed-to-origin maps)
RECURSIVE SeqOfSet(_)
SeqOfSet(S) ==
    IF S = {} THEN <<>>
    ELSE LET m == CHOOSE x \in S : \A y \in S : x <= y
         IN  <<m>> \o SeqOfSet(S \ {m})

\* a grid of the family; axis and nnc are fixed where they change nothing
IsGrid(n, ax, A, nc) ==
    /\ A # {}
    /\ A \subseteq 0 .. (n - 1)
    /\ ((\E o \in A : o + 1 \in A) \/ ax = 0)
    /\ ((\E o \in A : o + 1 \notin A /\ \E p \in A : p > o) \/ ~nc)

\* the logical dimensions of a row of n cells along axis ax
RowDims(n, ax) == [a \in 1 .. dimWorld |-> IF a = ax + 1 THEN n ELSE 1]

\* the grids of up to MaxCart cells in a row
RowGrids ==
    { [cartDims |-> RowDims(t[1], t[2]), axes |-> {t[2]},
       globalCell |-> SeqOfSet(t[3]), nnc |-> t[4]] :
        t \in { u \in (1 .. MaxCart) \X Axes \X (SUBSET (0 .. (MaxCart - 1))) \X BOOLEAN :
                    IsGrid(u[1], u[2], u[3], u[4]) } }

\* the grid of 2 x 2 x 1 cells, all active, each cell with its six intersections
LayerGrid ==
    [cartDims |-> <<2, 2, 1>>, axes |-> Axes, globalCell |-> <<0, 1, 2, 3>>,
     nnc |-> FALSE]

Grids == RowGrids \cup {LayerGrid}

\* local face index that stands for a non-structured connection
IrregularFace == 0 - 1
\* "no element": the outside of a boundary intersection, no current element
NoElem == 0 - 1

\* gridView().size(0): the number of elements (active cells)
NumElements(g) == Len(g.globalCell)
\* model().numDof(): the element centred finite volume discretization
\* (SpatialDiscretizationSplice = EcfvDiscretization) has one degree of
\* freedom per element
NumDof(g) == Len(g.globalCell)
\* cartSize[0] * cartSize[1] * cartSize[2]
NumCartesianCells(g) == g.cartDims[1] * g.cartDims[2] * g.cartDims[3]
\* grid.globalCell()[elemIdx]
GlobalCell(g, elemIdx) == g.globalCell[elemIdx + 1]
Elements(g) == 0 .. (NumElements(g) - 1)

\* the origin index is i + nx * (j + ny * k): the distance in origin index of
\* two cells adjacent along axis ax, and the coordinate of origin o along ax
Stride(g, ax) ==
    IF ax = 0 THEN 1 ELSE IF ax = 1 THEN g.cartDims[1]
    ELSE g.cartDims[1] * g.cartDims[2]
Coord(g, o, ax) == (o \div Stride(g, ax)) % g.cartDims[ax + 1]

\* the elements that lie beyond element c along axis ax on its plus (dir = 1)
\* or minus (dir = 0) side
ElementsBeyond(g, c, ax, dir) ==
    { e \in Elements(g) :
        /\ \A a \in Axes \ {ax} :
              Coord(g, GlobalCell(g, e), a) = Coord(g, GlobalCell(g, c), a)
        /\ IF dir = 1
           THEN Coord(g, GlobalCell(g, e), ax) > Coord(g, GlobalCell(g, c), ax)
           ELSE Coord(g, GlobalCell(g, e), ax) < Coord(g, GlobalCell(g, c), ax) }

\* the intersection of element c across axis ax on its plus (dir = 1) or
\* minus (dir = 0) side
SideIntersection(g, c, ax, dir) ==
    LET beyond == ElementsBeyond(g, c, ax, dir)
        exists == beyond # {}
        other == IF dir = 1
                 THEN CHOOSE e \in beyond : \A f \in beyond : e <= f
                 ELSE CHOOSE e \in beyond : \A f \in beyond : e >= f
        step == IF dir = 1 THEN Stride(g, ax) ELSE 0 - Stride(g, ax)
        adjacent == exists /\ GlobalCell(g, other) = GlobalCell(g, c) + step
    IN  IF adjacent
        THEN [inside |-> c, outside |-> other, face |-> 2 * ax + dir,
              neighbor |-> TRUE]
        ELSE IF exists /\ g.nnc
        THEN [inside |-> c, outside |-> other, face |-> IrregularFace,
              neighbor |-> TRUE]
        ELSE [inside |-> c, outside |-> NoElem, face |-> 2 * ax + dir,
              neighbor |-> FALSE]

\* elemIt->ileafbegin() .. ileafend(): the intersections of element c
IntersectionsOf(g, c) ==
    { SideIntersection(g, c, ax, dir) : ax \in g.axes, dir \in {0, 1} }

(***************************************************************************)
(* The deck / EclipseState: per-cell arrays over the logical grid (grid    *)
(* properties) and keywords; each is present or absent.                    *)
(***************************************************************************)
GridPropNames ==
    {"PERMX", "PERMY", "PERMZ", "NTG", "PORO", "MULTPV", "SATNUM",
     "MULTX", "MULTX-", "MULTY", "MULTY-", "MULTZ", "MULTZ-"}
DeckKeywords ==
    {"SWAT", "SGAS", "PRESSURE", "RS", "SWOF", "SGOF",
     "PVTO", "PVTW", "PVDG", "DENSITY"}

Prop(d) == [has |-> TRUE, data |-> d]
NoProp == [has |-> FALSE, data |-> <<>>]
Opt(S) == {NoProp} \cup { Prop(d) : d \in S }

Const(n, v) == [i \in 1 .. n |-> v]
Ramp(n, s) == [i \in 1 .. n |-> (i - 1 + s) % (MaxVal + 1)]
Pats(n) == { Const(n, v) : v \in Vals } \cup { Ramp(n, s) : s \in Vals }

\* region numbers as the deck gives them: 1-based, possibly out of range
RegionRamp(n, s) == [i \in 1 .. n |-> (i - 1 + s) % (MaxTables + 2)]
RegionPats(n) ==
    { Const(n, v) : v \in 0 .. (MaxTables + 1) } \cup
    { RegionRamp(n, s) : s \in 0 .. (MaxTables + 1) }

\* table k of the SWOF keyword and of the SGOF keyword: sample columns
SwofTableOf(k) ==
    [Sw |-> <<0, 1>>, Krw |-> <<0, k>>, Krow |-> <<k, 0>>, Pcow |-> <<k, 0>>]
SgofTableOf(k) ==
    [Sg |-> IF k % 2 = 1 THEN <<DblZero, Dbl03, DblOne>>
            ELSE <<Dbl006, Dbl05, Dbl082>>,
     Krog |-> <<k, 1, 0>>, Krg |-> <<0, 1, k>>, Pcog |-> <<0, 0, k>>]
\* the SWOF / SGOF keyword with count tables; absent when count = 0
SwofTables(count) ==
    IF count = 0 THEN NoProp ELSE Prop([k \in 1 .. count |-> SwofTableOf(k)])
SgofTables(count) ==
    IF count = 0 THEN NoProp ELSE Prop([k \in 1 .. count |-> SgofTableOf(k)])

\* a time map of n points: the report steps have the lengths 1, 2, ...
TimePoints(n) == [i \in 1 .. n |-> ((i - 1) * i) \div 2]

\* a complete deck with no optional array
BaseDeck(n) ==
    [schedule |-> TimePoints(2),
     prop |-> [k \in GridPropNames |->
                 IF k = "PERMX" THEN Prop(Ramp(n, 1))
                 ELSE IF k = "PORO" THEN Prop(Const(n, 1))
                 ELSE NoProp],
     kw |-> [k \in DeckKeywords |->
                 IF k = "SWOF" THEN SwofTables(1)
                 ELSE IF k = "SGOF" THEN SgofTables(1)
                 ELSE IF k \in {"SWAT", "SGAS"} THEN Prop(Const(n, DblZero))
                 ELSE Prop(Const(n, 1))]]

\* decks that vary the rock permeability arrays
RockDecks(n) ==
    { [BaseDeck(n) EXCEPT !.prop["PERMX"] = px, !.prop["PERMY"] = py,
                          !.prop["PERMZ"] = pz, !.prop["NTG"] = ntg] :
        px \in Opt(Pats(n)), py \in Opt({Ramp(n, 2)}),
        pz \in Opt({Const(n, MaxVal)}), ntg \in Opt({Ramp(n, 0)}) }

\* decks that vary the porosity arrays
PoroDecks(n) ==
    { [BaseDeck(n) EXCEPT !.prop["PORO"] = po, !.prop["NTG"] = ntg,
                          !.prop["MULTPV"] = mpv] :
        po \in Opt(Pats(n)), ntg \in Opt({Ramp(n, 1)}),
        mpv \in Opt({Ramp(n, 2), Const(n, 2)}) }

MultPlusName(ax) == IF ax = 0 THEN "MULTX" ELSE IF ax = 1 THEN "MULTY" ELSE "MULTZ"
MultMinusName(ax) == IF ax = 0 THEN "MULTX-" ELSE IF ax = 1 THEN "MULTY-" ELSE "MULTZ-"

\* decks that vary the transmissibility multipliers: those of axis ax freely,
\* those of the two other axes together
MultDecks(n, ax) ==
    { [BaseDeck(n) EXCEPT
          !.prop = [k \in GridPropNames |->
                      IF k = "PERMX" THEN px
                      ELSE IF k = MultPlusName(ax) THEN mp
                      ELSE IF k = MultMinusName(ax) THEN mm
                      ELSE IF k \in {"MULTX", "MULTX-", "MULTY", "MULTY-",
                                     "MULTZ", "MULTZ-"} THEN mo
                      ELSE @[k]]] :
        px \in { Prop(Ramp(n, 1)), Prop(Const(n, 1)) },
        mp \in Opt({Ramp(n, 0), Const(n, 2)}),
        mm \in Opt({Ramp(n, 2), Const(n, 2)}),
        mo \in Opt({Const(n, 2)}) }

\* decks that vary the saturation function tables and the region array
SatDecks(n) ==
    { [BaseDeck(n) EXCEPT !.kw["SWOF"] = SwofTables(nw),
                          !.kw["SGOF"] = SgofTables(ng)] :
        nw \in 0 .. MaxTables, ng \in 0 .. MaxTables } \cup
    { [BaseDeck(n) EXCEPT !.kw["SWOF"] = SwofTables(nt),
                          !.kw["SGOF"] = SgofTables(nt),
                          !.prop["SATNUM"] = Prop(sn)] :
        nt \in 1 .. MaxTables, sn \in RegionPats(n) }

\* decks that vary the initial condition and the PVT keywords
InitDecks(n) ==
    { [BaseDeck(n) EXCEPT !.kw = [k \in DeckKeywords |->
                                    IF k \in missing THEN NoProp ELSE @[k]]] :
        missing \in SUBSET {"SWAT", "SGAS", "PRESSURE", "RS"} } \cup
    { [BaseDeck(n) EXCEPT !.kw[k] = NoProp] :
        k \in {"PVTO", "PVTW", "PVDG", "DENSITY"} } \cup
    { [BaseDeck(n) EXCEPT !.kw["SWAT"] = Prop(sw), !.kw["SGAS"] = Prop(sg)] :
        sw \in SatPats(n), sg \in { SatRamp(n, 1), SatRamp(n, 4) } } \cup
    { [BaseDeck(n) EXCEPT !.kw["PRESSURE"] = Prop(pr)] : pr \in Pats(n) }

\* decks that vary the schedule: at least one report step
ScheduleDecks(n) ==
    { [BaseDeck(n) EXCEPT !.schedule = TimePoints(k)] : k \in 2 .. MaxTimePoints }

\* the deck of uniform rock and uniform initial saturations
UniformDeck(n) ==
    [BaseDeck(n) EXCEPT !.prop["PERMX"] = Prop(Const(n, 100)),
                        !.prop["PERMY"] = Prop(Const(n, 100)),
                        !.prop["PERMZ"] = Prop(Const(n, 100)),
                        !.kw["SWAT"] = Prop(Const(n, Dbl03)),
                        !.kw["SGAS"] = Prop(Const(n, Dbl02))]

\* the axis of a row grid
RowAxis(g) == CHOOSE ax \in g.axes : TRUE

Decks(g) ==
    IF g = LayerGrid THEN {UniformDeck(NumCartesianCells(g))}
    ELSE RockDecks(NumCartesianCells(g)) \cup PoroDecks(NumCartesianCells(g)) \cup
         MultDecks(NumCartesianCells(g), RowAxis(g)) \cup
         SatDecks(NumCartesianCells(g)) \cup InitDecks(NumCartesianCells(g)) \cup
         ScheduleDecks(NumCartesianCells(g))

(***************************************************************************)
(* The deck interface                                                      *)
(***************************************************************************)
\* eclipseState->hasDoubleGridProperty(name), hasIntGridProperty(name)
HasGridProperty(d, name) == d.prop[name].has
\* eclipseState->getDoubleGridProperty(name)->getData()
GridPropertyData(d, name) == d.prop[name].data
\* deck->hasKeyword(name)
HasKeyword(d, name) == d.kw[name].has
\* SwofTable::numTables(keyword), SgofTable::numTables(keyword)
NumTables(d, name) == Len(d.kw[name].data)
\* timeMap->size()
TimeMapSize(d) == Len(d.schedule)
\* timeMap->getTimeStepLength(timeStepIdx), for a report step of the time map
TimeStepLength(d, timeStepIdx) ==
    d.schedule[timeStepIdx + 2] - d.schedule[timeStepIdx + 1]
\* whether timeStepIdx is a report step of the time map
IsReportStep(d, timeStepIdx) ==
    0 <= timeStepIdx /\ timeStepIdx <= TimeMapSize(d) - 2

(***************************************************************************)
(* Per-cell permeability and porosity (readMaterialParameters_)            *)
(***************************************************************************)
ZeroMatrix == [i \in Dim |-> [j \in Dim |-> 0]]

\* permyData / permzData: a copy of PERMX, overwritten by the deck's array
PermDataOrPermx(d, name) ==
    IF HasGridProperty(d, name) THEN GridPropertyData(d, name)
    ELSE GridPropertyData(d, "PERMX")

\* the tensor of a cell with origin index cartesianElemIdx, before NTG
CellPermeability(d, cartesianElemIdx) ==
    [ZeroMatrix EXCEPT
        ![0][0] = GridPropertyData(d, "PERMX")[cartesianElemIdx + 1],
        ![1][1] = PermDataOrPermx(d, "PERMY")[cartesianElemIdx + 1],
        ![2][2] = PermDataOrPermx(d, "PERMZ")[cartesianElemIdx + 1]]

NtgAllPermeability(K, ntg) ==
    [K EXCEPT ![0][0] = @ * ntg, ![1][1] = @ * ntg, ![2][2] = @ * ntg]
\* apply the NTG keyword to the X and Y permeabilities
NtgPermeability(K, ntg) == [K EXCEPT ![0][0] = @ * ntg, ![1][1] = @ * ntg]

(***************************************************************************)
(* Face permeabilities (computeFaceIntrinsicPermeabilities_)               *)
(***************************************************************************)
MultNames == {"MULTX", "MULTX-", "MULTY", "MULTY-", "MULTZ", "MULTZ-"}

MultArrayDefaultZero(d, g, name) ==
    IF HasGridProperty(d, name) THEN GridPropertyData(d, name)
    ELSE Const(NumElements(g), 0)
\* std::vector<Scalar> multx(numElements, 1.0), replaced by the deck's array
\* when the deck has the keyword
MultArray(d, g, name) ==
    IF HasGridProperty(d, name) THEN GridPropertyData(d, name)
    ELSE Const(NumElements(g), 1)

SumFaceKey(interiorElemIdx, exteriorElemIdx, numElements) ==
    Min(interiorElemIdx, exteriorElemIdx) + Max(interiorElemIdx, exteriorElemIdx)
DirectedFaceKey(interiorElemIdx, exteriorElemIdx, numElements) ==
    interiorElemIdx * numElements + exteriorElemIdx
\* elem1Idx*numElements + elem2Idx
FaceKey(interiorElemIdx, exteriorElemIdx, numElements) ==
    Min(interiorElemIdx, exteriorElemIdx) * numElements
        + Max(interiorElemIdx, exteriorElemIdx)

\* the multiplier arrays applied to K1 (interior) and K2 (exterior) for a
\* local face index of the interior element; <<>> when none applies
FaceMultNames(insideFaceIdx) ==
    IF insideFaceIdx = 1 THEN <<"MULTX", "MULTX-">>
    ELSE IF insideFaceIdx = 0 THEN <<"MULTX-", "MULTX">>
    ELSE IF insideFaceIdx = 3 THEN <<"MULTY", "MULTY-">>
    ELSE IF insideFaceIdx = 2 THEN <<"MULTY-", "MULTY">>
    ELSE IF insideFaceIdx = 5 THEN <<"MULTZ", "MULTZ-">>
    ELSE IF insideFaceIdx = 4 THEN <<"MULTZ-", "MULTZ">>
    ELSE <<>>

\* whether vec[idx] reads an element of the vector
InRange(vec, idx) == 0 <= idx /\ idx < Len(vec)

\* what a read past the end of a vector can yield
Garbage == Vals

\* the values vec[idx] can yield
ReadOutcomes(vec, idx) == IF InRange(vec, idx) THEN {vec[idx + 1]} ELSE Garbage

\* K *= m on a DimMatrix
ScaleMatrix(K, m) == [i \in Dim |-> [j \in Dim |-> K[i][j] * m]]

\* Opm::utils::harmonicAverage: 2ab/(a+b), zero when a component is zero
HarmonicAverage(a, b) ==
    IF a = 0 \/ b = 0 THEN Frac(0, 1) ELSE Frac(2 * a * b, a + b)

\* element-wise harmonic average of K1 and K2
HarmonicMatrix(K1, K2) ==
    [i \in Dim |-> [j \in Dim |-> HarmonicAverage(K1[i][j], K2[i][j])]]

(***************************************************************************)
(* The state                                                               *)
(***************************************************************************)
VARIABLES
    grid,                                \* gridManager().grid(), gridView()
    deck,                                \* gridManager().deck(), eclipseState()
    pc,                                  \* position in the constructor
    error,                               \* the exception or assertion raised
    fluidSystemInitialized,              \* FluidSystem::initEnd() was called
    intrinsicPermeability_,
    porosity_,
    intersectionIntrinsicPermeability_,  \* key -> tensor
    materialParams_,
    materialParamTableIdx_,
    initialFluidStates_,
    elemDone,                            \* elements the element loop has left
    curElem,                             \* *elemIt, NoElem outside the loop body
    isecTodo,                            \* intersections of curElem not yet visited
    firstVisit,                          \* key -> the intersection that stored it
    multOutOfRange,                      \* a multiplier was read past its array
    queryResult,                         \* what the last call returned
    simulator                            \* this->simulator(): episodes and time steps

vars ==
    <<grid, deck, pc, error, fluidSystemInitialized, intrinsicPermeability_,
      porosity_, intersectionIntrinsicPermeability_, materialParams_,
      materialParamTableIdx_, initialFluidStates_, elemDone, curElem, isecTodo,
      firstVisit, multOutOfRange, queryResult, simulator>>

inputVars == <<grid, deck>>
faceLoopVars == <<elemDone, curElem, isecTodo>>
faceVars == <<intersectionIntrinsicPermeability_, firstVisit, multOutOfRange>>
rockVars == <<intrinsicPermeability_, porosity_>>
lawVars == <<materialParams_, materialParamTableIdx_>>

\* the InitialTimeStepSize parameter
InitialTimeStepSize == 2
NoStep == 0 - 1

\* the simulator before the problem is constructed; episodes counts the calls
\* of startNextEpisode, maxStepAsked is the largest report step whose length
\* the time map was asked for
NewSimulator ==
    [episodeIndex |-> 0, episodeLength |-> 0, timeStepSize |-> InitialTimeStepSize,
     finished |-> FALSE, episodes |-> 0, maxStepAsked |-> NoStep]

EmptyMap == [k \in {} |-> ZeroMatrix]
NoQuery == [status |-> "none", key |-> 0, K |-> ZeroMatrix]

\* the state before the constructor runs
NotConstructed ==
    /\ pc = "initFluidSystem"
    /\ error = "none"
    /\ fluidSystemInitialized = FALSE
    /\ intrinsicPermeability_ = <<>>
    /\ porosity_ = <<>>
    /\ intersectionIntrinsicPermeability_ = EmptyMap
    /\ materialParams_ = <<>>
    /\ materialParamTableIdx_ = <<>>
    /\ initialFluidStates_ = <<>>
    /\ elemDone = {}
    /\ curElem = NoElem
    /\ isecTodo = {}
    /\ firstVisit = EmptyMap
    /\ multOutOfRange = FALSE
    /\ queryResult = NoQuery
    /\ simulator = NewSimulator

Init ==
    /\ grid \in Grids
    /\ deck \in Decks(grid)
    /\ NotConstructed

\* the decks with which the simulation is run after construction
RunDecks(g) ==
    ScheduleDecks(NumCartesianCells(g)) \cup
    { [BaseDeck(NumCartesianCells(g)) EXCEPT
          !.kw["SWOF"] = SwofTables(MaxTables),
          !.kw["SGOF"] = SgofTables(MaxTables),
          !.prop["SATNUM"] =
              Prop([i \in 1 .. NumCartesianCells(g) |-> 1 + ((i - 1) % MaxTables)]),
          !.prop["NTG"] = Prop(Ramp(NumCartesianCells(g), 1)),
          !.kw["SWAT"] = Prop(SatRamp(NumCartesianCells(g), 0)),
          !.schedule = TimePoints(MaxTimePoints)],
      [BaseDeck(NumCartesianCells(g)) EXCEPT
          !.kw["SWOF"] = SwofTables(MaxTables),
          !.kw["SGOF"] = SgofTables(MaxTables),
          !.prop["SATNUM"] =
              Prop([i \in 1 .. NumCartesianCells(g) |-> Min(i, MaxTables + 1)])] }

InitRun ==
    /\ grid \in RowGrids
    /\ deck \in RunDecks(grid)
    /\ NotConstructed

\* an exception leaves the constructor (OPM_THROW, a throwing library call)
Throw(msg) == pc' = "failed" /\ error' = msg
\* assert(cond) fails
AssertFail(msg) == pc' = "aborted" /\ error' = msg
Goto(label) == pc' = label /\ error' = error

(***************************************************************************)
(* initFluidSystem_                                                        *)
(***************************************************************************)
PvtKeywords == {"PVTO", "PVTW", "PVDG", "DENSITY"}

InitFluidSystem ==
    /\ pc = "initFluidSystem"
    /\ IF \A k \in PvtKeywords : HasKeyword(deck, k)
       THEN /\ fluidSystemInitialized' = TRUE
            /\ Goto("readPermeability")
       ELSE /\ Throw("keyword not found")
            /\ UNCHANGED fluidSystemInitialized
    /\ UNCHANGED <<inputVars, simulator, rockVars, faceVars, lawVars, initialFluidStates_,
                   faceLoopVars, queryResult>>

(***************************************************************************)
(* readMaterialParameters_: permeability                                   *)
(***************************************************************************)
DefaultLawParams ==
    [finalized |-> FALSE, oilWaterParams |-> <<>>, gasOilParams |-> <<>>]

NextStepFacesFirst(label) ==
    IF label = "readPermeability" THEN "faceLoop"
    ELSE IF label = "faceLoop" THEN "applyNtgPermeability"
    ELSE "readPorosity"
\* the order of the permeability part of readMaterialParameters_: read the
\* arrays, apply NTG, compute the face permeabilities, go on with the porosity
NextStep(label) ==
    IF label = "readPermeability" THEN "applyNtgPermeability"
    ELSE IF label = "applyNtgPermeability" THEN "faceLoop"
    ELSE "readPorosity"

ReadPermeability ==
    /\ pc = "readPermeability"
    /\ porosity_' = Const(NumDof(grid), 0)
    /\ materialParams_' = Const(NumDof(grid), DefaultLawParams)
    /\ IF HasGridProperty(deck, "PERMX")
       THEN /\ intrinsicPermeability_' =
                 [c \in 1 .. NumDof(grid) |->
                     CellPermeability(deck, GlobalCell(grid, c - 1))]
            /\ Goto(NextStep("readPermeability"))
       ELSE /\ intrinsicPermeability_' = Const(NumDof(grid), ZeroMatrix)
            /\ Throw("PERM{X,Y,Z} keywords are missing")
    /\ UNCHANGED <<inputVars, simulator, fluidSystemInitialized, faceVars,
                   materialParamTableIdx_, initialFluidStates_, faceLoopVars,
                   queryResult>>

ApplyNtgPermeability ==
    /\ pc = "applyNtgPermeability"
    /\ intrinsicPermeability_' =
          IF HasGridProperty(deck, "NTG")
          THEN [c \in 1 .. NumDof(grid) |->
                   NtgPermeability(intrinsicPermeability_[c],
                       GridPropertyData(deck, "NTG")[GlobalCell(grid, c - 1) + 1])]
          ELSE intrinsicPermeability_
    /\ Goto(NextStep("applyNtgPermeability"))
    /\ UNCHANGED <<inputVars, simulator, fluidSystemInitialized, porosity_, faceVars, lawVars,
                   initialFluidStates_, faceLoopVars, queryResult>>

(***************************************************************************)
(* computeFaceIntrinsicPermeabilities_: the element and intersection loops *)
(***************************************************************************)
\* ++elemIt / begin: enter the loop body for an element not yet visited
FaceNextElement ==
    /\ pc = "faceLoop"
    /\ isecTodo = {}
    /\ \E e \in Elements(grid) \ (elemDone \cup {curElem}) :
          /\ curElem' = e
          /\ isecTodo' = IntersectionsOf(grid, e)
    /\ elemDone' = IF curElem = NoElem THEN elemDone ELSE elemDone \cup {curElem}
    /\ Goto("faceLoop")
    /\ UNCHANGED <<inputVars, simulator, fluidSystemInitialized, rockVars, faceVars, lawVars,
                   initialFluidStates_, queryResult>>

\* the index and the array of the multiplier applied to K1 (side = 1) or K2 (side = 2)
MultIndex(is, side) ==
    GlobalCell(grid, IF side = 1 THEN is.inside ELSE is.outside)
MultVector(is, side) == MultArray(deck, grid, FaceMultNames(is.face)[side])

\* the values the multiplier of K1 or K2 can take for intersection is
MultOutcomes(is, side) ==
    IF FaceMultNames(is.face) = <<>> THEN {1}
    ELSE ReadOutcomes(MultVector(is, side), MultIndex(is, side))

\* some multiplier read of intersection is lies outside its array
ReadsOutOfRange(is) ==
    /\ FaceMultNames(is.face) # <<>>
    /\ \E side \in {1, 2} : ~InRange(MultVector(is, side), MultIndex(is, side))

\* the body of the intersection loop for one intersection of the element
FaceVisit ==
    /\ pc = "faceLoop"
    /\ \E is \in isecTodo :
          LET intersectIdx == FaceKey(is.inside, is.outside, NumElements(grid))
          IN  /\ isecTodo' = isecTodo \ {is}
              /\ IF ~is.neighbor
                    \/ intersectIdx \in DOMAIN intersectionIntrinsicPermeability_
                 THEN UNCHANGED faceVars
                 ELSE \E m1 \in MultOutcomes(is, 1), m2 \in MultOutcomes(is, 2) :
                        LET K1 == ScaleMatrix(intrinsicPermeability_[is.inside + 1], m1)
                            K2 == ScaleMatrix(intrinsicPermeability_[is.outside + 1], m2)
                        IN  /\ intersectionIntrinsicPermeability_' =
                                  (intersectIdx :> HarmonicMatrix(K1, K2))
                                      @@ intersectionIntrinsicPermeability_
                            /\ firstVisit' = (intersectIdx :> is) @@ firstVisit
                            /\ multOutOfRange' =
                                  (multOutOfRange \/ ReadsOutOfRange(is))
    /\ Goto("faceLoop")
    /\ UNCHANGED <<inputVars, simulator, fluidSystemInitialized, rockVars, lawVars,
                   initialFluidStates_, elemDone, curElem, queryResult>>

\* a multiplier read past the end of its array faults instead of yielding a value
FaceVisitFault ==
    /\ pc = "faceLoop"
    /\ \E is \in isecTodo :
          /\ is.neighbor
          /\ FaceKey(is.inside, is.outside, NumElements(grid))
                \notin DOMAIN intersectionIntrinsicPermeability_
          /\ ReadsOutOfRange(is)
    /\ pc' = "crashed"
    /\ error' = "out-of-bounds read"
    /\ multOutOfRange' = TRUE
    /\ UNCHANGED <<inputVars, simulator, fluidSystemInitialized, rockVars, lawVars,
                   initialFluidStates_, faceLoopVars,
                   intersectionIntrinsicPermeability_, firstVisit, queryResult>>

\* elemIt == elemEndIt: the element loop ends
FaceEnd ==
    /\ pc = "faceLoop"
    /\ isecTodo = {}
    /\ Elements(grid) \subseteq elemDone \cup {curElem}
    /\ elemDone' = Elements(grid)
    /\ curElem' = NoElem
    /\ isecTodo' = {}
    /\ Goto(NextStep("faceLoop"))
    /\ UNCHANGED <<inputVars, simulator, fluidSystemInitialized, rockVars, faceVars, lawVars,
                   initialFluidStates_, queryResult>>

(***************************************************************************)
(* readMaterialParameters_: porosity                                       *)
(***************************************************************************)
ScaledByActiveIndex(vec, d, g, name) ==
    IF HasGridProperty(d, name)
    THEN [c \in 1 .. Len(vec) |-> vec[c] * GridPropertyData(d, name)[c]]
    ELSE vec
\* porosity_[dofIdx] *= data[cartesianElemIdx] for every dof, if the deck has
\* the property
ScaledByProperty(vec, d, g, name) ==
    IF HasGridProperty(d, name)
    THEN [c \in 1 .. Len(vec) |->
             vec[c] * GridPropertyData(d, name)[GlobalCell(g, c - 1) + 1]]
    ELSE vec

ReadPorosityLenient ==
    /\ pc = "readPorosity"
    /\ porosity_' =
          IF HasGridProperty(deck, "PORO")
          THEN [c \in 1 .. NumDof(grid) |->
                   GridPropertyData(deck, "PORO")[GlobalCell(grid, c - 1) + 1]]
          ELSE porosity_
    /\ Goto("applyNtgPorosity")
    /\ UNCHANGED <<inputVars, simulator, fluidSystemInitialized, intrinsicPermeability_,
                   faceVars, lawVars, initialFluidStates_, faceLoopVars,
                   queryResult>>

ReadPorosity ==
    /\ pc = "readPorosity"
    /\ IF HasGridProperty(deck, "PORO")
       THEN /\ porosity_' =
                 [c \in 1 .. NumDof(grid) |->
                     GridPropertyData(deck, "PORO")[GlobalCell(grid, c - 1) + 1]]
            /\ Goto("applyNtgPorosity")
       ELSE /\ UNCHANGED porosity_
            /\ Throw("PORO keyword is missing")
    /\ UNCHANGED <<inputVars, simulator, fluidSystemInitialized, intrinsicPermeability_,
                   faceVars, lawVars, initialFluidStates_, faceLoopVars,
                   queryResult>>

ApplyNtgPorosity ==
    /\ pc = "applyNtgPorosity"
    /\ porosity_' = ScaledByProperty(porosity_, deck, grid, "NTG")
    /\ Goto("applyMultpv")
    /\ UNCHANGED <<inputVars, simulator, fluidSystemInitialized, intrinsicPermeability_,
                   faceVars, lawVars, initialFluidStates_, faceLoopVars,
                   queryResult>>

ApplyMultpv ==
    /\ pc = "applyMultpv"
    /\ porosity_' = ScaledByProperty(porosity_, deck, grid, "MULTPV")
    /\ Goto("readSatTables")
    /\ UNCHANGED <<inputVars, simulator, fluidSystemInitialized, intrinsicPermeability_,
                   faceVars, lawVars, initialFluidStates_, faceLoopVars,
                   queryResult>>

(***************************************************************************)
(* readMaterialParameters_: saturation functions                           *)
(***************************************************************************)
\* owParams: the oil-water curve of a SWOF table
OilWaterParams(swofTable) ==
    [SwSamples |-> swofTable.Sw, KrwSamples |-> swofTable.Krw,
     KrnSamples |-> swofTable.Krow, PcnwSamples |-> swofTable.Pcow,
     finalized |-> TRUE]

GasOilParamsAscending(sgofTable) ==
    [SwSamples |-> [i \in 1 .. Len(sgofTable.Sg) |->
                       DoubleSub(DblOne, sgofTable.Sg[Len(sgofTable.Sg) + 1 - i])],
     KrwSamples |-> sgofTable.Krog, KrnSamples |-> sgofTable.Krg,
     PcnwSamples |-> sgofTable.Pcog, finalized |-> TRUE]
\* goParams: the gas-oil curve of a SGOF table, over oil saturations
GasOilParams(sgofTable) ==
    [SwSamples |-> [i \in 1 .. Len(sgofTable.Sg) |->
                       DoubleSub(DblOne, sgofTable.Sg[i])],
     KrwSamples |-> sgofTable.Krog, KrnSamples |-> sgofTable.Krg,
     PcnwSamples |-> sgofTable.Pcog, finalized |-> TRUE]

\* materialParams_[tableIdx] after setOilWaterParams, setGasOilParams, finalize
MaterialLaw(swofTable, sgofTable) ==
    [finalized |-> TRUE, oilWaterParams |-> OilWaterParams(swofTable),
     gasOilParams |-> GasOilParams(sgofTable)]

TableCountsAtMost(d) == NumTables(d, "SWOF") <= NumTables(d, "SGOF")
\* assert(SwofTable::numTables(swofKeyword) == SgofTable::numTables(sgofKeyword))
TableCountsAgree(d) == NumTables(d, "SWOF") = NumTables(d, "SGOF")

ReadSatTables ==
    /\ pc = "readSatTables"
    /\ IF ~HasKeyword(deck, "SWOF") \/ ~HasKeyword(deck, "SGOF")
       THEN /\ Throw("keyword not found")
            /\ UNCHANGED materialParams_
       ELSE IF ~TableCountsAgree(deck)
       THEN /\ AssertFail("numTables(SWOF) == numTables(SGOF)")
            /\ UNCHANGED materialParams_
       ELSE /\ materialParams_' =
                 [t \in 1 .. NumTables(deck, "SWOF") |->
                     MaterialLaw(deck.kw["SWOF"].data[t],
                                 deck.kw["SGOF"].data[t])]
            /\ Goto("readSatnum")
    /\ UNCHANGED <<inputVars, simulator, fluidSystemInitialized, rockVars, faceVars,
                   materialParamTableIdx_, initialFluidStates_, faceLoopVars,
                   queryResult>>

\* the value the range assertions look at: satnumData[dofIdx]
AssertedSatnum(satnumData, dofIdx, cartesianElemIdx) == satnumData[dofIdx + 1]
\* the value that is stored: satnumData[cartesianElemIdx]
UsedSatnum(satnumData, dofIdx, cartesianElemIdx) == satnumData[cartesianElemIdx + 1]

\* int -> unsigned short of satnum - 1
StoredTableIdx(satnum) == (satnum - 1) % UShortModulus

\* the dofs for which one of the two range assertions fails
SatnumAssertFails(d, g, numSatfuncTables) ==
    { dofIdx \in 0 .. (NumDof(g) - 1) :
        LET v == AssertedSatnum(GridPropertyData(d, "SATNUM"), dofIdx,
                                GlobalCell(g, dofIdx))
        IN  ~(1 <= v /\ v <= numSatfuncTables) }

ReadSatnum ==
    /\ pc = "readSatnum"
    /\ IF HasGridProperty(deck, "SATNUM")
       THEN LET satnumData == GridPropertyData(deck, "SATNUM")
                bad == SatnumAssertFails(deck, grid, Len(materialParams_))
                \* the loop stops at the first dof whose assertion fails
                stop == IF bad = {} THEN NumDof(grid)
                        ELSE CHOOSE x \in bad : \A y \in bad : x <= y
            IN  /\ materialParamTableIdx_' =
                      [c \in 1 .. NumDof(grid) |->
                          IF c - 1 < stop
                          THEN StoredTableIdx(UsedSatnum(satnumData, c - 1,
                                                         GlobalCell(grid, c - 1)))
                          ELSE 0]
                /\ IF bad = {} THEN Goto("readInitialCondition")
                   ELSE AssertFail("SATNUM out of range")
       ELSE /\ materialParamTableIdx_' = <<>>
            /\ Goto("readInitialCondition")
    /\ UNCHANGED <<inputVars, simulator, fluidSystemInitialized, rockVars, faceVars,
                   materialParams_, initialFluidStates_, faceLoopVars, queryResult>>

(***************************************************************************)
(* readInitialCondition_                                                   *)
(***************************************************************************)
Phases == {"water", "oil", "gas"}
Components == {"water", "oil", "gas"}

\* a default-constructed fluid state
DefaultFluidState ==
    [temperature |-> 0, Sw |-> DblZero, Sg |-> DblZero, So |-> DblZero,
     pressure |-> 0,
     moleFraction |-> [ph \in Phases |-> [comp \in Components |-> Frac(0, 1)]]]

\* the Temperature parameter [K], read into temperature_
Temperature == 293

KeywordValue(d, name, cartesianDofIdx) == d.kw[name].data[cartesianDofIdx + 1]

(* The black-oil fluid system the class asks: positive integer stand-ins   *)
(* for its pressure-dependent relations and its constants.                 *)
\* FluidSystem::oilFormationVolumeFactor(oilPressure)
OilFormationVolumeFactor(oilPressure) == 1 + oilPressure
\* FluidSystem::gasDissolutionFactor(oilPressure)
GasDissolutionFactor(oilPressure) == oilPressure
\* FluidSystem::surfaceDensity(phaseIdx)
SurfaceDensity(phaseIdx) == IF phaseIdx = "oil" THEN 8 ELSE 1
\* FluidSystem::molarMass(compIdx), in g/mol
MolarMass(compIdx) ==
    IF compIdx = "oil" THEN 175 ELSE IF compIdx = "gas" THEN 16 ELSE 18

\* XoG = Rs * rhogref / rhoo with rhoo = surfaceDensity(oil) / Bo
OilGasMassFraction(oilPressure) ==
    Frac(GasDissolutionFactor(oilPressure) * SurfaceDensity("gas")
             * OilFormationVolumeFactor(oilPressure),
         SurfaceDensity("oil"))

\* xoG = XoG * MO / ((MO - MG) * XoG + MG)
OilGasMoleFraction(oilPressure) ==
    LET XoG == OilGasMassFraction(oilPressure)
        MG == MolarMass("gas")
        MO == MolarMass("oil")
    IN  Frac(XoG[1] * MO, (MO - MG) * XoG[1] + MG * XoG[2])

\* 1 - x for a fraction x
OneMinus(x) == Frac(x[2] - x[1], x[2])

MoleFractionsGasUnset(oilPressure) ==
    LET xoG == OilGasMoleFraction(oilPressure)
    IN  [ph \in Phases |-> [comp \in Components |->
            IF ph = "water" /\ comp = "water" THEN Frac(1, 1)
            ELSE IF ph = "oil" /\ comp = "gas" THEN xoG
            ELSE IF ph = "oil" /\ comp = "oil" THEN OneMinus(xoG)
            ELSE Frac(0, 1)]]
\* the mole fractions set for oil pressure oilPressure: all reset to 0, then
\* water in water and gas in gas set to 1, then xoG and xoO of the oil phase
MoleFractions(oilPressure) ==
    LET xoG == OilGasMoleFraction(oilPressure)
    IN  [ph \in Phases |-> [comp \in Components |->
            IF ph = "water" /\ comp = "water" THEN Frac(1, 1)
            ELSE IF ph = "gas" /\ comp = "gas" THEN Frac(1, 1)
            ELSE IF ph = "oil" /\ comp = "gas" THEN xoG
            ELSE IF ph = "oil" /\ comp = "oil" THEN OneMinus(xoG)
            ELSE Frac(0, 1)]]

CellFluidStateClamped(d, cartesianDofIdx) ==
    LET So == DoubleSub(DoubleSub(DblOne, KeywordValue(d, "SWAT", cartesianDofIdx)),
                        KeywordValue(d, "SGAS", cartesianDofIdx))
    IN  [temperature |-> Temperature,
         Sw |-> KeywordValue(d, "SWAT", cartesianDofIdx),
         Sg |-> KeywordValue(d, "SGAS", cartesianDofIdx),
         So |-> IF So.neg THEN DblZero ELSE So,
         pressure |-> KeywordValue(d, "PRESSURE", cartesianDofIdx),
         moleFraction |-> MoleFractions(KeywordValue(d, "PRESSURE", cartesianDofIdx))]
\* the state of the cell with origin index cartesianDofIdx
CellFluidState(d, cartesianDofIdx) ==
    [temperature |-> Temperature,
     Sw |-> KeywordValue(d, "SWAT", cartesianDofIdx),
     Sg |-> KeywordValue(d, "SGAS", cartesianDofIdx),
     So |-> DoubleSub(DoubleSub(DblOne, KeywordValue(d, "SWAT", cartesianDofIdx)),
                      KeywordValue(d, "SGAS", cartesianDofIdx)),
     pressure |-> KeywordValue(d, "PRESSURE", cartesianDofIdx),
     moleFraction |-> MoleFractions(KeywordValue(d, "PRESSURE", cartesianDofIdx))]

InitialKeywordsErrorExplicitOnly(d) ==
    IF ~HasKeyword(d, "SWAT") \/ ~HasKeyword(d, "SGAS")
    THEN "requires the presence of the SWAT and SGAS keywords"
    ELSE IF ~HasKeyword(d, "PRESSURE")
    THEN "requires the presence of the PRESSURE keyword"
    ELSE "none"
\* the checks before the loop: the exception raised, "none" if all pass
\* (deck->getKeyword("RS") throws when the deck has no such keyword)
InitialKeywordsError(d) ==
    IF ~HasKeyword(d, "SWAT") \/ ~HasKeyword(d, "SGAS")
    THEN "requires the presence of the SWAT and SGAS keywords"
    ELSE IF ~HasKeyword(d, "PRESSURE")
    THEN "requires the presence of the PRESSURE keyword"
    ELSE IF ~HasKeyword(d, "RS")
    THEN "keyword not found"
    ELSE "none"

ReadInitialCondition ==
    /\ pc = "readInitialCondition"
    /\ initialFluidStates_' = Const(NumDof(grid), DefaultFluidState)
    /\ IF InitialKeywordsError(deck) # "none"
       THEN Throw(InitialKeywordsError(deck))
       ELSE IF \E k \in {"SWAT", "SGAS", "PRESSURE", "RS"} :
                   HasKeyword(deck, k)
                       /\ Len(deck.kw[k].data) # NumCartesianCells(grid)
       THEN AssertFail("data.size() == numCartesianCells")
       ELSE Goto("computeInitialStates")
    /\ UNCHANGED <<inputVars, simulator, fluidSystemInitialized, rockVars, faceVars, lawVars,
                   faceLoopVars, queryResult>>

InitialKeywords == {"SWAT", "SGAS", "PRESSURE", "RS"}

ComputeInitialStates ==
    /\ pc = "computeInitialStates"
    \* the loop reads the arrays obtained from the four keywords
    /\ \A k \in InitialKeywords : HasKeyword(deck, k)
    /\ initialFluidStates_' =
          [c \in 1 .. NumDof(grid) |->
              CellFluidState(deck, GlobalCell(grid, c - 1))]
    /\ Goto("startEpisode")
    /\ UNCHANGED <<inputVars, simulator, fluidSystemInitialized, rockVars, faceVars, lawVars,
                   faceLoopVars, queryResult>>

(***************************************************************************)
(* The end of the constructor and the queries made afterwards              *)
(***************************************************************************)
\* what getTimeStepLength can yield for an index that is no report step,
\* when it returns at all
GarbageLength == {0}

\* the values timeMap->getTimeStepLength(timeStepIdx) can return
TimeStepLengthOutcomes(d, timeStepIdx) ==
    IF IsReportStep(d, timeStepIdx) THEN {TimeStepLength(d, timeStepIdx)}
    ELSE GarbageLength

\* simulator.startNextEpisode(length) after the time map was asked for the
\* length of report step timeStepIdx
StartNextEpisode(sim, timeStepIdx, length) ==
    [sim EXCEPT !.episodeIndex = @ + 1, !.episodeLength = length,
                !.episodes = @ + 1,
                !.maxStepAsked = Max(@, timeStepIdx)]

\* the end of the constructor: start the first episode with the length of
\* report step 0, make the episode index the report step index, and clamp
\* the initial time step size to the episode length
StartEpisode ==
    /\ pc = "startEpisode"
    /\ \E length \in TimeStepLengthOutcomes(deck, 0) :
          simulator' =
              [StartNextEpisode(simulator, 0, length) EXCEPT
                  !.episodeIndex = 0,
                  !.timeStepSize = IF @ > length THEN length ELSE @]
    /\ Goto("constructed")
    /\ UNCHANGED <<inputVars, fluidSystemInitialized, rockVars, faceVars, lawVars,
                   initialFluidStates_, faceLoopVars, queryResult>>

\* a public operation is called on a constructed problem, by a caller that
\* has taken the result of its previous call
QueriesEnabled == pc = "constructed" /\ queryResult.status = "none"

\* the caller takes the result of its call
ReturnToCaller ==
    /\ pc = "constructed"
    /\ queryResult.status # "none"
    /\ queryResult' = NoQuery
    /\ Goto("constructed")
    /\ UNCHANGED <<inputVars, simulator, fluidSystemInitialized, rockVars, faceVars,
                   lawVars, initialFluidStates_, faceLoopVars>>

\* episodeEnd, where the time map returns a length
EpisodeEnd ==
    /\ QueriesEnabled
    /\ LET numReportSteps == TimeMapSize(deck) - 1
           episodeIdx == simulator.episodeIndex
       IN  IF episodeIdx < numReportSteps
           THEN \E length \in TimeStepLengthOutcomes(deck, episodeIdx + 1) :
                    simulator' =
                        StartNextEpisode(simulator, episodeIdx + 1, length)
           ELSE simulator' = [simulator EXCEPT !.finished = TRUE]
    /\ Goto("constructed")
    /\ UNCHANGED <<inputVars, fluidSystemInitialized, rockVars, faceVars, lawVars,
                   initialFluidStates_, faceLoopVars, queryResult>>

\* episodeEnd, where the time map rejects an index that is no report step
EpisodeEndFault ==
    /\ QueriesEnabled
    /\ simulator.episodeIndex < TimeMapSize(deck) - 1
    /\ ~IsReportStep(deck, simulator.episodeIndex + 1)
    /\ simulator' =
          [simulator EXCEPT
              !.maxStepAsked = Max(@, simulator.episodeIndex + 1)]
    /\ Throw("time step index out of range")
    /\ UNCHANGED <<inputVars, fluidSystemInitialized, rockVars, faceVars, lawVars,
                   initialFluidStates_, faceLoopVars, queryResult>>

\* shouldWriteOutput: the time step index, the EnableWriteAllSolutions
\* parameter and episodeWillBeOver() come from the simulator
ShouldWriteOutput ==
    /\ QueriesEnabled
    /\ \E timeStepIndex \in {0, 1}, enableWriteAllSolutions \in BOOLEAN,
          episodeWillBeOver \in BOOLEAN :
          queryResult' =
              [status |-> "shouldWriteOutput",
               value |-> IF timeStepIndex = 0 THEN TRUE
                         ELSE IF enableWriteAllSolutions THEN TRUE
                         ELSE episodeWillBeOver]
    /\ Goto("constructed")
    /\ UNCHANGED <<inputVars, simulator, fluidSystemInitialized, rockVars, faceVars,
                   lawVars, initialFluidStates_, faceLoopVars>>

IntrinsicPermeability ==
    /\ QueriesEnabled
    /\ \E globalSpaceIdx \in Elements(grid) :
          queryResult' = [status |-> "intrinsicPermeability", cell |-> globalSpaceIdx,
                          K |-> intrinsicPermeability_[globalSpaceIdx + 1]]
    /\ Goto("constructed")
    /\ UNCHANGED <<inputVars, simulator, fluidSystemInitialized, rockVars, faceVars,
                   lawVars, initialFluidStates_, faceLoopVars>>

Porosity ==
    /\ QueriesEnabled
    /\ \E globalSpaceIdx \in Elements(grid) :
          queryResult' = [status |-> "porosity", cell |-> globalSpaceIdx,
                          value |-> porosity_[globalSpaceIdx + 1]]
    /\ Goto("constructed")
    /\ UNCHANGED <<inputVars, simulator, fluidSystemInitialized, rockVars, faceVars,
                   lawVars, initialFluidStates_, faceLoopVars>>

\* temperature(): temperature_, the Temperature parameter
TemperatureQuery ==
    /\ QueriesEnabled
    /\ queryResult' = [status |-> "temperature", value |-> Temperature]
    /\ Goto("constructed")
    /\ UNCHANGED <<inputVars, simulator, fluidSystemInitialized, rockVars, faceVars,
                   lawVars, initialFluidStates_, faceLoopVars>>

\* boundary(): values.setNoFlow()
Boundary ==
    /\ QueriesEnabled
    /\ queryResult' = [status |-> "boundary", value |-> "noFlow"]
    /\ Goto("constructed")
    /\ UNCHANGED <<inputVars, simulator, fluidSystemInitialized, rockVars, faceVars,
                   lawVars, initialFluidStates_, faceLoopVars>>

\* initial(): values.assignNaive(initialFluidStates_[globalDofIdx])
Initial ==
    /\ QueriesEnabled
    /\ \E globalDofIdx \in Elements(grid) :
          queryResult' = [status |-> "initial", cell |-> globalDofIdx,
                          state |-> initialFluidStates_[globalDofIdx + 1]]
    /\ Goto("constructed")
    /\ UNCHANGED <<inputVars, simulator, fluidSystemInitialized, rockVars, faceVars,
                   lawVars, initialFluidStates_, faceLoopVars>>

\* source(): rate = 0
Source ==
    /\ QueriesEnabled
    /\ queryResult' = [status |-> "source", value |-> 0]
    /\ Goto("constructed")
    /\ UNCHANGED <<inputVars, simulator, fluidSystemInitialized, rockVars, faceVars,
                   lawVars, initialFluidStates_, faceLoopVars>>

\* globalIntersectionIdx of intersectionIntrinsicPermeability
QueryKey(interiorElemIdx, exteriorElemIdx, numDof) ==
    Min(interiorElemIdx, exteriorElemIdx) * numDof
        + Max(interiorElemIdx, exteriorElemIdx)

MapAfterSubscript(map, key) ==
    IF key \in DOMAIN map THEN map ELSE (key :> ZeroMatrix) @@ map
\* the map after map.at(key): at() never inserts
MapAfterAt(map, key) == map

\* result = map.at(key): the stored tensor, or std::out_of_range
ResultOfAt(map, key) ==
    IF key \in DOMAIN map
    THEN [status |-> "ok", key |-> key, K |-> map[key]]
    ELSE [status |-> "out_of_range", key |-> key, K |-> ZeroMatrix]

IntersectionIntrinsicPermeability ==
    /\ QueriesEnabled
    /\ \E interiorElemIdx \in Elements(grid), exteriorElemIdx \in Elements(grid) :
          /\ interiorElemIdx # exteriorElemIdx
          /\ LET key == QueryKey(interiorElemIdx, exteriorElemIdx, NumDof(grid))
             IN  /\ queryResult' =
                       ResultOfAt(intersectionIntrinsicPermeability_, key)
                 /\ intersectionIntrinsicPermeability_' =
                       MapAfterAt(intersectionIntrinsicPermeability_, key)
    /\ Goto("constructed")
    /\ UNCHANGED <<inputVars, simulator, fluidSystemInitialized, rockVars, firstVisit,
                   multOutOfRange, lawVars, initialFluidStates_, faceLoopVars>>

\* the sample vectors and the curves that the bytes behind the vector can
\* be read as: each of the four vectors of a curve is empty or not on its own
GarbageSamples == {<<>>, <<MaxVal, 0>>}
GarbageCurves ==
    { [SwSamples |-> sw, KrwSamples |-> krw, KrnSamples |-> krn,
       PcnwSamples |-> pcnw, finalized |-> f] :
        sw \in GarbageSamples, krw \in GarbageSamples, krn \in GarbageSamples,
        pcnw \in GarbageSamples, f \in BOOLEAN }

\* what materialParams_[tableIdx] can yield when tableIdx is past the end of the
\* vector: a reference to whatever lies there, read as a law object
GarbageLawParams ==
    { [finalized |-> f, oilWaterParams |-> ow, gasOilParams |-> go] :
        f \in BOOLEAN, ow \in {<<>>} \cup GarbageCurves,
        go \in {<<>>} \cup GarbageCurves }

\* the objects materialParams_[tableIdx] can yield: the element, or past the
\* end of the vector any object, an element of the vector included
LawOutcomes(params, tableIdx) ==
    IF InRange(params, tableIdx) THEN {params[tableIdx + 1]}
    ELSE GarbageLawParams \cup { params[t] : t \in 1 .. Len(params) }

\* tableIdx of materialLawParams for a cell
LawTableIdx(tableIdxVector, globalSpaceIdx) ==
    IF Len(tableIdxVector) > 0 THEN tableIdxVector[globalSpaceIdx + 1] ELSE 0

MaterialLawParams ==
    /\ QueriesEnabled
    /\ \E globalSpaceIdx \in Elements(grid) :
          LET tableIdx == LawTableIdx(materialParamTableIdx_, globalSpaceIdx)
          IN  \E law \in LawOutcomes(materialParams_, tableIdx) :
                 queryResult' = [status |-> "law", cell |-> globalSpaceIdx,
                                 tableIdx |-> tableIdx, params |-> law]
    /\ Goto("constructed")
    /\ UNCHANGED <<inputVars, simulator, fluidSystemInitialized, rockVars, faceVars, lawVars,
                   initialFluidStates_, faceLoopVars>>

\* materialParams_[tableIdx] past the end of the vector faults (a checked
\* operator[], a sanitizer, an unmapped page) instead of yielding an object
MaterialLawParamsFault ==
    /\ QueriesEnabled
    /\ \E globalSpaceIdx \in Elements(grid) :
          ~InRange(materialParams_,
                   LawTableIdx(materialParamTableIdx_, globalSpaceIdx))
    /\ pc' = "faulted"
    /\ error' = "out-of-bounds read"
    /\ UNCHANGED <<inputVars, simulator, fluidSystemInitialized, rockVars, faceVars, lawVars,
                   initialFluidStates_, faceLoopVars, queryResult>>

Next ==
    \/ InitFluidSystem
    \/ ReadPermeability
    \/ ApplyNtgPermeability
    \/ FaceNextElement
    \/ FaceVisit
    \/ FaceVisitFault
    \/ FaceEnd
    \/ ReadPorosity
    \/ ApplyNtgPorosity
    \/ ApplyMultpv
    \/ ReadSatTables
    \/ ReadSatnum
    \/ ReadInitialCondition
    \/ ComputeInitialStates
    \/ StartEpisode
    \/ IntersectionIntrinsicPermeability
    \/ MaterialLawParams
    \/ MaterialLawParamsFault
    \/ ReturnToCaller

\* the construction followed by the two table lookups of the discretization
Spec == Init /\ [][Next]_vars

NextRun ==
    \/ Next
    \/ IntrinsicPermeability
    \/ Porosity
    \/ TemperatureQuery
    \/ Boundary
    \/ Initial
    \/ Source
    \/ ShouldWriteOutput
    \/ EpisodeEnd
    \/ EpisodeEndFault

\* the construction followed by a run: every public operation, in any order
SpecRun == InitRun /\ [][NextRun]_vars

(***************************************************************************)
(* Properties                                                              *)
(***************************************************************************)
LabelsAfterNtgPermeability ==
    {"faceLoop", "readPorosity", "applyNtgPorosity", "applyMultpv",
     "readSatTables", "readSatnum", "readInitialCondition",
     "computeInitialStates", "startEpisode", "constructed"}
LabelsAfterPorosity ==
    {"applyNtgPorosity", "applyMultpv", "readSatTables", "readSatnum",
     "readInitialCondition", "computeInitialStates", "startEpisode",
     "constructed"}
LabelsAfterMultpv ==
    {"readSatTables", "readSatnum", "readInitialCondition",
     "computeInitialStates", "startEpisode", "constructed"}
LabelsAfterSatTables ==
    {"readSatnum", "readInitialCondition", "computeInitialStates",
     "startEpisode", "constructed"}
LabelsAfterSatnum ==
    {"readInitialCondition", "computeInitialStates", "startEpisode",
     "constructed"}
LabelsAfterInitialCheck == {"computeInitialStates", "startEpisode", "constructed"}

\* computeFaceIntrinsicPermeabilities_ has returned
FacesComputed == elemDone = Elements(grid) /\ pc \notin {"faceLoop", "crashed"}

\* the pairs a < b of active cells that share an interior intersection
InterfacePairs ==
    { ab \in Elements(grid) \X Elements(grid) :
        /\ ab[1] < ab[2]
        /\ \E c \in {ab[1], ab[2]} : \E is \in IntersectionsOf(grid, c) :
              is.neighbor /\ {is.inside, is.outside} = {ab[1], ab[2]} }

\* C1: once the face permeabilities are computed, the face map holds exactly
\* one entry, under the key min(a,b)*numElements+max(a,b), for every pair of
\* active cells that share an interior intersection, and no other entry,
\* whatever the order in which elements and intersections were visited.
C1_OneEntryPerInterface ==
    FacesComputed =>
        /\ DOMAIN intersectionIntrinsicPermeability_ =
              { ab[1] * NumElements(grid) + ab[2] : ab \in InterfacePairs }
        /\ Cardinality(DOMAIN intersectionIntrinsicPermeability_) =
              Cardinality(InterfacePairs)

\* C1 witness: two interfaces are stored, one first seen from its lower and
\* one first seen from its higher cell.
C1_Witness ==
    /\ FacesComputed
    /\ Cardinality(InterfacePairs) >= 2
    /\ \E k \in DOMAIN firstVisit : firstVisit[k].inside > firstVisit[k].outside
    /\ \E k \in DOMAIN firstVisit : firstVisit[k].inside < firstVisit[k].outside

\* C2: every multiplier lookup made while the face permeabilities are built
\* reads an element of the multiplier array, whether the deck supplies the
\* array or it is defaulted to all-ones, also when inactive cells were removed.
C2_MultiplierLookupsInRange == multOutOfRange = FALSE

\* the raw region value cell c uses: SATNUM at the cell's origin index
RawRegionOf(c) == GridPropertyData(deck, "SATNUM")[GlobalCell(grid, c) + 1]

\* C3: when SATNUM is present and readMaterialParameters_ completes, every
\* stored per-cell region index lies in [0, numRegions-1]; a cell whose raw
\* region value (at its origin index) is < 1 or > numRegions is fatal.
C3_RegionIndicesInRange ==
    (HasGridProperty(deck, "SATNUM") /\ pc \in LabelsAfterSatnum) =>
        \A c \in Elements(grid) :
            /\ 1 <= RawRegionOf(c) /\ RawRegionOf(c) <= Len(materialParams_)
            /\ materialParamTableIdx_[c + 1] \in 0 .. (Len(materialParams_) - 1)

\* the multiplier of the deck for an origin index: 1 when the array is absent
DeckMultiplier(name, origin) ==
    IF HasGridProperty(deck, name) THEN GridPropertyData(deck, name)[origin + 1]
    ELSE 1

\* the multiplier pair (m1, m2) the specification gives interior cell I,
\* exterior cell E and interior-side local face index f
SpecifiedMultipliers(I, E, f) ==
    LET oI == GlobalCell(grid, I)
        oE == GlobalCell(grid, E)
    IN  CASE f = 1 -> <<DeckMultiplier("MULTX", oI), DeckMultiplier("MULTX-", oE)>>
          [] f = 3 -> <<DeckMultiplier("MULTY", oI), DeckMultiplier("MULTY-", oE)>>
          [] f = 5 -> <<DeckMultiplier("MULTZ", oI), DeckMultiplier("MULTZ-", oE)>>
          [] f = 0 -> <<DeckMultiplier("MULTX-", oI), DeckMultiplier("MULTX", oE)>>
          [] f = 2 -> <<DeckMultiplier("MULTY-", oI), DeckMultiplier("MULTY", oE)>>
          [] f = 4 -> <<DeckMultiplier("MULTZ-", oI), DeckMultiplier("MULTZ", oE)>>
          [] OTHER -> <<1, 1>>

\* the tensor of key k is the harmonic average of the multiplier-scaled
\* tensors of the two cells of its first visit
StoredAsSpecified(k) ==
    LET is == firstVisit[k]
        m == SpecifiedMultipliers(is.inside, is.outside, is.face)
    IN  \A i \in Dim, j \in Dim :
            intersectionIntrinsicPermeability_[k][i][j] =
                HarmonicAverage(m[1] * intrinsicPermeability_[is.inside + 1][i][j],
                                m[2] * intrinsicPermeability_[is.outside + 1][i][j])

\* C4: every stored face tensor is, componentwise, the harmonic average of
\* m1*K_I and m2*K_E, with (m1, m2) the plus/minus multipliers of the axis of
\* the interior-side face index f at the cells' origin indices, (1, 1) for f
\* outside 0..5, and an absent multiplier array counting as 1.
C4_StoredTensor ==
    \A k \in DOMAIN firstVisit : StoredAsSpecified(k)

\* C4 where no multiplier was read out of range: the stored tensors are as
\* specified.
C4_StoredTensorInRangeReads ==
    ~multOutOfRange => \A k \in DOMAIN firstVisit : StoredAsSpecified(k)

\* C5: a query for a pair with no stored entry ends in std::out_of_range,
\* returns no tensor and inserts nothing (the map holds the assembled keys
\* only); the key the query computes with numDof for a pair discovered during
\* assembly is the key it was stored under, and the query returns that tensor.
C5_QueryContract ==
    /\ DOMAIN intersectionIntrinsicPermeability_ = DOMAIN firstVisit
    /\ \A k \in DOMAIN firstVisit :
          QueryKey(firstVisit[k].inside, firstVisit[k].outside, NumDof(grid)) = k
    /\ queryResult.status = "out_of_range" =>
          queryResult.key \notin DOMAIN intersectionIntrinsicPermeability_
    /\ queryResult.status = "ok" =>
          /\ queryResult.key \in DOMAIN firstVisit
          /\ queryResult.K = intersectionIntrinsicPermeability_[queryResult.key]

\* C5 witness: with entries stored, a query for a pair that shares no
\* interface has failed.
C5_Witness ==
    /\ pc = "constructed"
    /\ queryResult.status = "out_of_range"
    /\ DOMAIN intersectionIntrinsicPermeability_ # {}

\* C5 witness of the second half: a query from the side that was not visited
\* first has returned the assembled tensor.
C5_WitnessFound ==
    /\ pc = "constructed"
    /\ queryResult.status = "ok"
    /\ Cardinality(DOMAIN intersectionIntrinsicPermeability_) >= 2

RequiredInitialArrayMissing ==
    \E k \in InitialKeywords : ~HasKeyword(deck, k)

\* C6: if SWAT, SGAS, PRESSURE or RS is absent, readInitialCondition_ ends in
\* an exception and the state of no cell is computed.
C6_MissingInitialArrayFatal ==
    RequiredInitialArrayMissing =>
        /\ pc \notin LabelsAfterInitialCheck
        /\ \A c \in 1 .. Len(initialFluidStates_) :
              initialFluidStates_[c] = DefaultFluidState
        /\ initialFluidStates_ # <<>> => pc = "failed"

\* C6 witness: only RS is absent and readInitialCondition_ has thrown.
C6_Witness ==
    /\ ~HasKeyword(deck, "RS")
    /\ \A k \in InitialKeywords \ {"RS"} : HasKeyword(deck, k)
    /\ initialFluidStates_ # <<>>
    /\ pc = "failed"

\* C7: if PERMX or PORO is absent, readMaterialParameters_ throws where it
\* reads the array and the constructor never gets past that place: the
\* problem is never constructed.
C7_MissingRockArrayFatal ==
    /\ ~HasGridProperty(deck, "PERMX") =>
          /\ pc \notin LabelsAfterNtgPermeability \cup {"applyNtgPermeability"}
          /\ intrinsicPermeability_ # <<>> => pc = "failed"
    /\ ~HasGridProperty(deck, "PORO") =>
          /\ pc \notin LabelsAfterPorosity
          /\ FacesComputed /\ pc # "readPorosity" => pc = "failed"

\* C7 witness: PORO is absent; the permeabilities and face permeabilities
\* were assembled and the constructor has thrown.
C7_Witness ==
    /\ ~HasGridProperty(deck, "PORO")
    /\ pc = "failed"
    /\ error = "PORO keyword is missing"
    /\ DOMAIN intersectionIntrinsicPermeability_ # {}

\* C8: if the numbers of SWOF and SGOF tables differ, the assembly ends
\* fatally where the tables are read and no three-phase law object is built.
C8_TableCountMismatchFatal ==
    NumTables(deck, "SWOF") # NumTables(deck, "SGOF") =>
        /\ pc \notin LabelsAfterSatTables
        /\ \A t \in 1 .. Len(materialParams_) : ~materialParams_[t].finalized

\* C8 witness: fewer SWOF than SGOF tables, and the assertion has failed.
C8_Witness ==
    /\ pc = "aborted"
    /\ error = "numTables(SWOF) == numTables(SGOF)"
    /\ 0 < NumTables(deck, "SWOF")
    /\ NumTables(deck, "SWOF") < NumTables(deck, "SGOF")

\* the raw value of a deck array at the origin index of active cell c
RawAt(name, c) == GridPropertyData(deck, name)[GlobalCell(grid, c) + 1]
\* the factor of an optional array: 1 when the array is absent
FactorAt(name, c) == IF HasGridProperty(deck, name) THEN RawAt(name, c) ELSE 1

\* C9: for every active cell c the assembled tensor is diagonal with
\* K[0][0] = permX*ntg, K[1][1] = permY*ntg, K[2][2] = permZ at the cell's
\* origin index; permY and permZ are permX when absent, ntg is 1 when absent.
C9_CellPermeability ==
    pc \in LabelsAfterNtgPermeability =>
        \A c \in Elements(grid) :
            LET K == intrinsicPermeability_[c + 1]
                permX == RawAt("PERMX", c)
                permY == IF HasGridProperty(deck, "PERMY") THEN RawAt("PERMY", c)
                         ELSE permX
                permZ == IF HasGridProperty(deck, "PERMZ") THEN RawAt("PERMZ", c)
                         ELSE permX
            IN  /\ K[0][0] = permX * FactorAt("NTG", c)
                /\ K[1][1] = permY * FactorAt("NTG", c)
                /\ K[2][2] = permZ
                /\ \A i \in Dim, j \in Dim : i # j => K[i][j] = 0

\* C9 witness: NTG and PERMZ present, PERMY absent, and a cell whose origin
\* index differs from its active index has a net-to-gross value other than 0
\* and 1 and a non-zero vertical permeability.
C9_Witness ==
    /\ pc = "constructed"
    /\ HasGridProperty(deck, "NTG")
    /\ HasGridProperty(deck, "PERMZ")
    /\ ~HasGridProperty(deck, "PERMY")
    /\ \E c \in Elements(grid) :
          /\ GlobalCell(grid, c) # c
          /\ RawAt("NTG", c) > 1
          /\ intrinsicPermeability_[c + 1][2][2] > 0
          /\ intrinsicPermeability_[c + 1][0][0] > 0

\* C10: for every active cell c the assembled porosity is PORO at the cell's
\* origin index, times NTG there if NTG is present, times MULTPV there if
\* MULTPV is present.
C10_CellPorosity ==
    pc \in LabelsAfterMultpv =>
        \A c \in Elements(grid) :
            porosity_[c + 1] =
                RawAt("PORO", c) * FactorAt("NTG", c) * FactorAt("MULTPV", c)

\* C10 witness: both optional arrays are present and change the porosity of a
\* cell whose origin index differs from its active index.
C10_Witness ==
    /\ pc = "constructed"
    /\ HasGridProperty(deck, "NTG")
    /\ HasGridProperty(deck, "MULTPV")
    /\ \E c \in Elements(grid) :
          /\ GlobalCell(grid, c) # c
          /\ RawAt("NTG", c) > 1
          /\ RawAt("MULTPV", c) > 1
          /\ porosity_[c + 1] > 0

\* the region the deck gives cell c, 0-based: raw[origin(c)] - 1, or 0 when the
\* deck has no region array
DeckRegionOf(c) ==
    IF HasGridProperty(deck, "SATNUM") THEN RawRegionOf(c) - 1 ELSE 0

\* the lookup returned the law object of the deck's region of the cell
LookupReturnsDeckRegion ==
    LET region == DeckRegionOf(queryResult.cell)
    IN  /\ queryResult.tableIdx = region
        /\ InRange(materialParams_, region)
        /\ queryResult.params = materialParams_[region + 1]

\* C11: the lookup of materialLawParams returns, for every active cell c, the
\* law object of region raw[origin(c)] - 1 when the region array is present,
\* and the law object of region 0 when it is absent.
C11_RegionLookup ==
    queryResult.status = "law" => LookupReturnsDeckRegion

\* C11 where the raw value at the origin index of the cell names a region:
\* the lookup returns that region's law object.
C11_RegionLookupOfValidRegions ==
    (queryResult.status = "law"
        /\ InRange(materialParams_, DeckRegionOf(queryResult.cell)))
    => LookupReturnsDeckRegion

LabelsAfterInitialStates == {"startEpisode", "constructed"}

\* the value of a deck keyword at the origin index of active cell c
RawKeywordAt(name, c) == deck.kw[name].data[GlobalCell(grid, c) + 1]

\* Sw + Sg + So - 1 of a fluid state, without rounding
SaturationResidual(st) ==
    ExactAdd(ExactAdd(ExactAdd(st.Sw, st.Sg), st.So), Negate(DblOne))

\* Sw + Sg + So as the double expression evaluates
SaturationSumInDouble(st) == DoubleAdd(DoubleAdd(st.Sw, st.Sg), st.So)

\* C12 as stated: for every active cell Sw and Sg are the raw values at the
\* origin index, and the three saturations sum to exactly 1 (as real numbers,
\* or at least when the sum is evaluated in double) for every input.
C12_SaturationsSumToOne ==
    pc \in LabelsAfterInitialStates =>
        \A c \in Elements(grid) :
            LET st == initialFluidStates_[c + 1]
            IN  /\ st.Sw = RawKeywordAt("SWAT", c)
                /\ st.Sg = RawKeywordAt("SGAS", c)
                /\ (IsZero(SaturationResidual(st))
                        \/ SaturationSumInDouble(st) = DblOne)

\* C12, amended: for every active cell Sw and Sg are the raw values at the
\* origin index and So is (1 - Sw) - Sg evaluated in double, each subtraction
\* rounded to nearest, and stored as it is, negative or not; for saturations
\* in [0, 1] the three differ from summing to 1 by at most 2^-53, the rounding
\* error of the two subtractions.
C12_SaturationsRounded ==
    pc \in LabelsAfterInitialStates =>
        \A c \in Elements(grid) :
            LET st == initialFluidStates_[c + 1]
                sw == RawKeywordAt("SWAT", c)
                sg == RawKeywordAt("SGAS", c)
            IN  /\ st.Sw = sw
                /\ st.Sg = sg
                /\ st.So = DoubleSub(DoubleSub(DblOne, sw), sg)
                /\ SaturationResidual(st).hi = 0
                /\ SaturationResidual(st).lo <= 2 ^ (UnitExponent - MantissaBits)

\* C12 witness: a cell whose origin index differs from its active index has
\* Sw + Sg > 1 and a negative oil saturation, and in some cell the rounded
\* saturations do not sum to 1.
C12_Witness ==
    /\ pc = "constructed"
    /\ \E c \in Elements(grid) :
          /\ GlobalCell(grid, c) # c
          /\ initialFluidStates_[c + 1].So.neg
    /\ \E c \in Elements(grid) :
          ~IsZero(SaturationResidual(initialFluidStates_[c + 1]))

\* x + y for fractions
FracAdd(x, y) == Frac(x[1] * y[2] + y[1] * x[2], x[2] * y[2])

\* the sum of the mole fractions of a phase over all components
MoleFractionSum(x) == FracAdd(FracAdd(x["water"], x["oil"]), x["gas"])

\* C13: for every active cell and every phase of its initial state the mole
\* fractions sum to 1: water in the water phase and gas in the gas phase are
\* 1 with 0 elsewhere; the oil phase has x_oG for gas, 1 - x_oG for oil and 0
\* for water, x_oG following from the oil pressure at the origin index.
C13_MoleFractions ==
    pc \in LabelsAfterInitialStates =>
        \A c \in Elements(grid) :
            LET x == initialFluidStates_[c + 1].moleFraction
                xoG == OilGasMoleFraction(RawKeywordAt("PRESSURE", c))
            IN  /\ \A ph \in Phases : MoleFractionSum(x[ph]) = Frac(1, 1)
                /\ \A ph \in {"water", "gas"} : \A comp \in Components :
                      x[ph][comp] = IF comp = ph THEN Frac(1, 1) ELSE Frac(0, 1)
                /\ x["oil"]["gas"] = xoG
                /\ x["oil"]["oil"] = OneMinus(xoG)
                /\ x["oil"]["water"] = Frac(0, 1)

\* C13 witness: two cells of a constructed problem differ in pressure and in
\* the composition of their oil phase, one holding dissolved gas and oil.
C13_Witness ==
    /\ pc = "constructed"
    /\ \E c1 \in Elements(grid), c2 \in Elements(grid) :
          LET x1 == initialFluidStates_[c1 + 1].moleFraction["oil"]
              x2 == initialFluidStates_[c2 + 1].moleFraction["oil"]
          IN  /\ x1["gas"] # x2["gas"]
              /\ x1["gas"][1] > 0
              /\ x1["oil"][1] > 0
              /\ GlobalCell(grid, c1) # c1

\* C14: for every region the saturation samples of the gas-oil curve are as
\* many as the Sg column has entries and the i-th is 1 - Sg[i] (in double),
\* in the order of the table; the Krog, Krg, Pcog columns and the four SWOF
\* columns are stored unchanged.
C14_TableColumns ==
    pc \in LabelsAfterSatTables =>
        \A t \in 1 .. Len(materialParams_) :
            LET swofTable == deck.kw["SWOF"].data[t]
                sgofTable == deck.kw["SGOF"].data[t]
                ow == materialParams_[t].oilWaterParams
                go == materialParams_[t].gasOilParams
            IN  /\ Len(go.SwSamples) = Len(sgofTable.Sg)
                /\ \A i \in 1 .. Len(sgofTable.Sg) :
                      go.SwSamples[i] = DoubleSub(DblOne, sgofTable.Sg[i])
                /\ go.KrwSamples = sgofTable.Krog
                /\ go.KrnSamples = sgofTable.Krg
                /\ go.PcnwSamples = sgofTable.Pcog
                /\ ow.SwSamples = swofTable.Sw
                /\ ow.KrwSamples = swofTable.Krw
                /\ ow.KrnSamples = swofTable.Krow
                /\ ow.PcnwSamples = swofTable.Pcow

\* C14 witness: two regions with different tables are stored; the sample
\* Sg = 0.3 of one is stored as 0.7, and the stored samples descend where
\* the Sg column ascends.
C14_Witness ==
    /\ pc = "constructed"
    /\ Len(materialParams_) >= 2
    /\ materialParams_[1] # materialParams_[2]
    /\ \E t \in 1 .. Len(materialParams_) :
          LET go == materialParams_[t].gasOilParams
          IN  /\ deck.kw["SGOF"].data[t].Sg[2] = Dbl03
              /\ go.SwSamples[2] = Dbl07
              /\ go.SwSamples[1] = DblOne
              /\ go.SwSamples[3] = DblZero

\* what the assembly produced
assembledVars ==
    <<intrinsicPermeability_, porosity_, intersectionIntrinsicPermeability_,
      materialParams_, materialParamTableIdx_, initialFluidStates_>>

\* C15: once the problem is constructed, no call of a public operation changes
\* the permeability array, the porosity array, the face map (keys and values),
\* the law objects, the region indices or the initial states.
C15_ReadOnlyAfterConstruction ==
    [][pc = "constructed" => UNCHANGED assembledVars]_vars

\* C15 witness: after a second episode was started, a face query for a pair
\* without entry has ended in std::out_of_range while entries are stored.
C15_Witness ==
    /\ pc = "constructed"
    /\ simulator.episodes >= 2
    /\ queryResult.status = "out_of_range"
    /\ DOMAIN intersectionIntrinsicPermeability_ # {}
    /\ Len(materialParamTableIdx_) > 0

\* C19: with a time map of n points, episodeEnd at episode index e starts the
\* next episode if and only if e + 1 <= n - 2, with the length of report step
\* e + 1, and otherwise marks the simulation finished: the time map is never
\* asked for the length of a report step with index > n - 2, and the
\* simulation is finished after exactly n - 1 episodes.
C19_EpisodesFollowReportSteps ==
    /\ simulator.maxStepAsked <= TimeMapSize(deck) - 2
    /\ simulator.episodes <= TimeMapSize(deck) - 1
    /\ simulator.finished => simulator.episodes = TimeMapSize(deck) - 1
    /\ error # "time step index out of range"

\* C19 for the episodes before the last: while e + 1 <= n - 2, episodeEnd
\* starts episode e + 1 with the length of report step e + 1.
C19_EpisodesBeforeTheLast ==
    [][(pc = "constructed" /\ simulator' # simulator
            /\ IsReportStep(deck, simulator.episodeIndex + 1))
        => simulator' =
              StartNextEpisode(simulator, simulator.episodeIndex + 1,
                  TimeStepLength(deck, simulator.episodeIndex + 1))]_vars

\* C16: the key min(a,b)*numElements+max(a,b) is the same for (a,b) and (b,a)
\* and differs for different unordered pairs of cell indices below
\* numElements; so every stored key belongs to one pair only, and once the
\* faces are computed every interface has the entry of its own pair: none was
\* skipped because of an entry of another pair.
C16_FaceKeyCanonical ==
    LET N == NumElements(grid)
    IN  /\ \A a \in Elements(grid), b \in Elements(grid) :
              FaceKey(a, b, N) = FaceKey(b, a, N)
        /\ \A a \in Elements(grid), b \in Elements(grid),
              c \in Elements(grid), d \in Elements(grid) :
              FaceKey(a, b, N) = FaceKey(c, d, N) => {a, b} = {c, d}
        /\ \A k \in DOMAIN firstVisit :
              k = FaceKey(firstVisit[k].inside, firstVisit[k].outside, N)
        /\ FacesComputed =>
              \A ab \in InterfacePairs :
                  LET k == FaceKey(ab[1], ab[2], N)
                  IN  /\ k \in DOMAIN firstVisit
                      /\ {firstVisit[k].inside, firstVisit[k].outside}
                            = {ab[1], ab[2]}

\* C16 witness: on a grid of three cells both interfaces are stored, the
\* second visit of each having been skipped, and the cells 0 and 2 share none.
C16_Witness ==
    /\ FacesComputed
    /\ NumElements(grid) = 3
    /\ Cardinality(DOMAIN firstVisit) = 2
    /\ FaceKey(0, 2, 3) \notin DOMAIN firstVisit

\* the tensor stored under key k is the harmonic average of the present cell
\* tensors of its two cells, each scaled by a multiplier its read can yield
BuiltFromCellTensors(k) ==
    LET is == firstVisit[k]
    IN  \E m1 \in MultOutcomes(is, 1), m2 \in MultOutcomes(is, 2) :
            intersectionIntrinsicPermeability_[k] =
                HarmonicMatrix(
                    ScaleMatrix(intrinsicPermeability_[is.inside + 1], m1),
                    ScaleMatrix(intrinsicPermeability_[is.outside + 1], m2))

\* where the construction sequence stands
ConstructionOrder ==
    /\ initialFluidStates_ # <<>> =>
          /\ fluidSystemInitialized
          /\ FacesComputed
          /\ pc \in LabelsAfterInitialCheck \cup {"failed", "aborted", "faulted"}
    /\ DOMAIN intersectionIntrinsicPermeability_ # {} =>
          pc \notin {"initFluidSystem", "readPermeability", "applyNtgPermeability"}
    /\ \A k \in DOMAIN firstVisit : BuiltFromCellTensors(k)

\* what a step of the construction leaves alone
ConstructionStep ==
    /\ initialFluidStates_ # <<>> =>
          UNCHANGED <<rockVars, intersectionIntrinsicPermeability_, lawVars,
                      fluidSystemInitialized>>
    /\ DOMAIN intersectionIntrinsicPermeability_ # {} =>
          UNCHANGED intrinsicPermeability_

\* C17: the fluid system is initialized before the initial states are
\* computed, and computing them is the last assembly step: from its start on
\* nothing else is assembled.  The face permeabilities are computed only after
\* the net-to-gross scaling: no cell tensor changes once a face tensor is
\* stored, so every stored face tensor is built from the final cell tensors.
C17_ConstructionSequence ==
    []ConstructionOrder /\ [][ConstructionStep]_vars

\* C17 witness: the problem is constructed from a deck with NTG, and a stored
\* face tensor has a cell with net-to-gross above 1 on its first-visit side.
C17_Witness ==
    /\ pc = "constructed"
    /\ HasGridProperty(deck, "NTG")
    /\ \E k \in DOMAIN firstVisit :
          /\ RawAt("NTG", firstVisit[k].inside) > 1
          /\ intersectionIntrinsicPermeability_[k][0][0][1] > 0
          /\ ~multOutOfRange

\* the scenario: the 2 x 2 x 1 grid with uniform rock and saturations is constructed
LayerConstructed ==
    grid = LayerGrid /\ deck = UniformDeck(4) /\ pc = "constructed"

\* the four interfaces of the layer: two across X, two across Y
LayerFaceKeys ==
    { FaceKey(0, 1, 4), FaceKey(2, 3, 4), FaceKey(0, 2, 4), FaceKey(1, 3, 4) }

\* exactly four face entries, none across Z, diagonal 100, off-diagonal 0
LayerFaces ==
    /\ Cardinality(DOMAIN intersectionIntrinsicPermeability_) = 4
    /\ DOMAIN intersectionIntrinsicPermeability_ = LayerFaceKeys
    /\ \A k \in DOMAIN firstVisit : firstVisit[k].face \in 0 .. 3
    /\ \A k \in DOMAIN intersectionIntrinsicPermeability_ : \A i, j \in Dim :
          intersectionIntrinsicPermeability_[k][i][j] =
              IF i = j THEN Frac(100, 1) ELSE Frac(0, 1)

\* C18 as stated: in the scenario of the 2 x 2 x 1 grid with all cells
\* active, permeability 100 along every axis, no multipliers, water
\* saturation 0.3 and gas saturation 0.2, there are exactly 4 face entries
\* (two X pairs, two Y pairs, none in Z), with diagonal 100 and off-diagonal
\* 0, and the oil saturation of every cell is 0.5.
C18_LayerScenario ==
    LayerConstructed =>
        /\ LayerFaces
        /\ \A c \in 1 .. Len(initialFluidStates_) :
              initialFluidStates_[c].So = Dbl05

\* 0.5 - 2^-54 = 0.49999999999999994, the double next below 0.5
DblBelow05 == Dbl(FALSE, 2 ^ (UnitExponent - LimbBits - 1) - 1, Limb - 2 ^ 3)

\* C18 amended: the face entries are as stated, and the oil saturation of
\* every cell is 1 - 0.3 - 0.2 evaluated in double precision, which is
\* 0.49999999999999994, the double next below 0.5, not 0.5.
C18_LayerScenarioRounded ==
    LayerConstructed =>
        /\ LayerFaces
        /\ Len(initialFluidStates_) = 4
        /\ \A c \in 1 .. Len(initialFluidStates_) :
              /\ initialFluidStates_[c].Sw = Dbl03
              /\ initialFluidStates_[c].Sg = Dbl02
              /\ initialFluidStates_[c].So = DblBelow05
              /\ DoubleAdd(initialFluidStates_[c].So, Dbl(FALSE, 0, 2 ^ 3)) = Dbl05

\* C18 witness: the scenario is constructed and its faces were stored from
\* both kinds of side, a plus face and a minus face.
C18_Witness ==
    /\ LayerConstructed
    /\ \E k \in DOMAIN firstVisit : firstVisit[k].face \in {1, 3}
    /\ \E k \in DOMAIN firstVisit : firstVisit[k].face \in {0, 2}

\* the intersection is seen from its other cell
OtherSide(is) ==
    CHOOSE r \in IntersectionsOf(grid, is.outside) :
        r.neighbor /\ r.outside = is.inside

\* the local face indices f and g are the two faces of one axis
OppositeFaces(f, g) ==
    f \in 0 .. 5 /\ g \in 0 .. 5 /\ f # g /\ f \div 2 = g \div 2

\* the tensors a visit of intersection is can store
VisitOutcomes(is) ==
    { HarmonicMatrix(ScaleMatrix(intrinsicPermeability_[is.inside + 1], m1),
                     ScaleMatrix(intrinsicPermeability_[is.outside + 1], m2)) :
        m1 \in MultOutcomes(is, 1), m2 \in MultOutcomes(is, 2) }

\* the tensor stored under key k is what a first visit from the other cell stores
SameFromOtherSide(k) ==
    LET is == firstVisit[k]
    IN  OppositeFaces(is.face, OtherSide(is).face) =>
            VisitOutcomes(OtherSide(is)) = {intersectionIntrinsicPermeability_[k]}

\* harmonicAvg(a, b) = harmonicAvg(b, a) and harmonicAvg(a, 0) = 0
HarmonicSymmetricZeroPreserving ==
    \A a, b \in 0 .. (MaxVal * MaxVal * MaxVal) :
        /\ HarmonicAverage(a, b) = HarmonicAverage(b, a)
        /\ HarmonicAverage(a, 0) = Frac(0, 1)

\* C20: where the two sides of an interface see opposite local face indices
\* of one axis, the tensor stored for it is the same whichever of its two
\* cells is visited first, for all permeabilities and multiplier arrays; the
\* harmonic average is symmetric and zero-preserving.
C20_SameTensorFromEitherSide ==
    /\ HarmonicSymmetricZeroPreserving
    /\ \A k \in DOMAIN firstVisit : SameFromOtherSide(k)

\* C20 where no multiplier is read out of range: the stored tensor is the
\* same from either side.
C20_SameTensorInRangeReads ==
    /\ HarmonicSymmetricZeroPreserving
    /\ \A k \in DOMAIN firstVisit :
          ~ReadsOutOfRange(firstVisit[k]) => SameFromOtherSide(k)

\* an interface stored from its minus side whose two multipliers differ and
\* whose cells have different positive permeabilities
C20_AsymmetricInterfaceStored ==
    \E k \in DOMAIN firstVisit :
        LET is == firstVisit[k]
        IN  /\ is.face \in {0, 2, 4}
            /\ ~ReadsOutOfRange(is)
            /\ \E m1 \in MultOutcomes(is, 1), m2 \in MultOutcomes(is, 2) : m1 # m2
            /\ intrinsicPermeability_[is.inside + 1][0][0]
                  # intrinsicPermeability_[is.outside + 1][0][0]
            /\ intersectionIntrinsicPermeability_[k][0][0][1] > 0

====
